---- MODULE Spec2Model ----
(***************************************************************************)
(* The persistent state manager of the Agentiom example agents and the     *)
(* HTTP handlers and signal handler that drive it.                         *)
(*                                                                         *)
(*   src/apps/cli/my-stateful-agent/main.py   the "stateful" variant       *)
(*   src/slack-assistant/main.py              the "slack" variant          *)
(*                                                                         *)
(* Python values are modelled as tagged records (PyVal), JSON documents as *)
(* tagged token trees (JVal); json.dump and json.load are the conversions  *)
(* Ser and Parse between the two.                                          *)
(***************************************************************************)
EXTENDS Integers, Sequences, FiniteSets, TLC

\* ------------------------------------------------------------------------
\* Bounds of the model
\* ------------------------------------------------------------------------
MaxReq == 2
MaxRestart == 1
MaxCalls == 3
MaxCap == 2

\* ------------------------------------------------------------------------
\* Program constants
\* ------------------------------------------------------------------------
MessagesCap == 100
HistoryCap == 50

\* ------------------------------------------------------------------------
\* Python values.  t is the runtime type; n the payload of int and bool
\* (True = 1), s the payload of str and the str() of any other object,
\* items the elements of list and tuple, fields the entries of a dict with
\* string keys.
\* ------------------------------------------------------------------------
NoFields == <<>>

PyInt(n) == [t |-> "int", n |-> n, s |-> "", items |-> <<>>, fields |-> NoFields]
PyBool(b) == [t |-> "bool", n |-> b, s |-> "", items |-> <<>>, fields |-> NoFields]
PyStr(s) == [t |-> "str", n |-> 0, s |-> s, items |-> <<>>, fields |-> NoFields]
PyNone == [t |-> "none", n |-> 0, s |-> "", items |-> <<>>, fields |-> NoFields]
PyFloat(s) == [t |-> "float", n |-> 0, s |-> s, items |-> <<>>, fields |-> NoFields]
PyObj(s) == [t |-> "object", n |-> 0, s |-> s, items |-> <<>>, fields |-> NoFields]
PyList(xs) == [t |-> "list", n |-> 0, s |-> "", items |-> xs, fields |-> NoFields]
PyTuple(xs) == [t |-> "tuple", n |-> 0, s |-> "", items |-> xs, fields |-> NoFields]
PyDict(f) == [t |-> "dict", n |-> 0, s |-> "", items |-> <<>>, fields |-> f]

EmptyDict == PyDict(NoFields)
EmptyList == PyList(<<>>)

\* f with key k bound to v (dict item assignment).
MapPut(f, k, v) == [x \in (DOMAIN f) \cup {k} |-> IF x = k THEN v ELSE f[x]]

\* ------------------------------------------------------------------------
\* JSON documents: the token tree json.dump writes and json.load reads.
\* ------------------------------------------------------------------------
JNum(n) == [j |-> "number", n |-> n, s |-> "", items |-> <<>>, fields |-> NoFields]
JStr(s) == [j |-> "string", n |-> 0, s |-> s, items |-> <<>>, fields |-> NoFields]
JLit(w) == [j |-> w, n |-> 0, s |-> "", items |-> <<>>, fields |-> NoFields]
JArr(xs) == [j |-> "array", n |-> 0, s |-> "", items |-> xs, fields |-> NoFields]
JObj(f) == [j |-> "object", n |-> 0, s |-> "", items |-> <<>>, fields |-> f]

\* json.dump(value, f, indent=2, default=str): the native types are written
\* as their JSON tokens, a tuple as an array, a float NaN as the bare token
\* NaN, and any other object as the string str(value).
\* Mutant of SerScalar: a bool, an int subclass, is written as a number.
SerScalarBoolAsNumber(v) ==
    CASE v.t = "str" -> JStr(v.s)
      [] v.t \in {"int", "bool"} -> JNum(v.n)
      [] v.t = "none" -> JLit("null")
      [] v.t = "float" -> JLit("NaN")
      [] OTHER -> JStr(v.s)

SerScalar(v) ==
    CASE v.t = "str" -> JStr(v.s)
      [] v.t = "int" -> JNum(v.n)
      [] v.t = "bool" -> IF v.n = 1 THEN JLit("true") ELSE JLit("false")
      [] v.t = "none" -> JLit("null")
      [] v.t = "float" -> JLit("NaN")
      [] OTHER -> JStr(v.s)

RECURSIVE Ser(_)
Ser(v) ==
    CASE v.t \in {"list", "tuple"} ->
            JArr([i \in 1..Len(v.items) |-> Ser(v.items[i])])
      [] v.t = "dict" ->
            JObj([k \in DOMAIN v.fields |-> Ser(v.fields[k])])
      [] OTHER -> SerScalar(v)

\* json.load: each token becomes the Python value of its JSON type.
RECURSIVE Parse(_)
Parse(d) ==
    CASE d.j = "string" -> PyStr(d.s)
      [] d.j = "number" -> PyInt(d.n)
      [] d.j = "true" -> PyBool(1)
      [] d.j = "false" -> PyBool(0)
      [] d.j = "null" -> PyNone
      [] d.j = "NaN" -> PyFloat("nan")
      [] d.j = "array" ->
            PyList([i \in 1..Len(d.items) |-> Parse(d.items[i])])
      [] OTHER ->
            PyDict([k \in DOMAIN d.fields |-> Parse(d.fields[k])])

\* The values JSON represents as themselves: strings, integers, booleans,
\* null, lists and string-keyed mappings of such values.
RECURSIVE JsonRepresentable(_)
JsonRepresentable(v) ==
    CASE v.t \in {"int", "bool", "none", "str"} -> TRUE
      [] v.t = "list" ->
            \A i \in 1..Len(v.items) : JsonRepresentable(v.items[i])
      [] v.t = "dict" ->
            \A k \in DOMAIN v.fields : JsonRepresentable(v.fields[k])
      [] OTHER -> FALSE

\* len(value) is defined for str, list, tuple and dict only.
HasLen(v) == v.t \in {"str", "list", "tuple", "dict"}

\* Mutant of PyLastSlice: items[:m], the first m elements.
PyFirstSlice(xs, m) == IF Len(xs) <= m THEN xs ELSE SubSeq(xs, 1, m)

\* items[-m:] on a Python list: the last m elements for m > 0, the whole
\* list for m = 0 (since -0 = 0), and all but the first -m for m < 0.
PyLastSlice(xs, m) ==
    IF m = 0 THEN xs
    ELSE IF m > 0
         THEN IF Len(xs) <= m THEN xs ELSE SubSeq(xs, Len(xs) - m + 1, Len(xs))
         ELSE SubSeq(xs, 1 - m, Len(xs))

\* ------------------------------------------------------------------------
\* The backing file.  kind is what a reader finds at the path:
\*   "absent"      no file
\*   "unreadable"  the file exists but open() raises
\*   "garbage"     the content is not a JSON document (includes an empty or
\*                 partly written file)
\*   "json"        a well-formed JSON document, doc
\* ------------------------------------------------------------------------
FileAbsent == [kind |-> "absent", doc |-> JLit("null")]
FileUnreadable == [kind |-> "unreadable", doc |-> JLit("null")]
FileGarbage == [kind |-> "garbage", doc |-> JLit("null")]
FileJson(d) == [kind |-> "json", doc |-> d]

\* ------------------------------------------------------------------------
\* StateManager.  d is self.data; the methods are given as the value they
\* leave in self.data and the value they return.
\* ------------------------------------------------------------------------

\* self.data.get raises AttributeError unless self.data is a dict.
IsDict(d) == d.t = "dict"

get(d, key, default) ==
    IF key \in DOMAIN d.fields THEN d.fields[key] ELSE default

set(d, key, value) == PyDict(MapPut(d.fields, key, value))

\* Mutant of increment: `by` is ignored and 1 is added.
increment_by_one(d, key, by) ==
    PyDict(MapPut(d.fields, key,
                  PyInt((IF key \in DOMAIN d.fields THEN d.fields[key] ELSE PyInt(0)).n + 1)))

\* old + by is defined for numbers; a bool counts as 0 or 1.
CanAdd(v) == v.t \in {"int", "bool"}

increment(d, key, by) == set(d, key, PyInt(get(d, key, PyInt(0)).n + by))

\* append_to_list: `items` is the stored list itself when the key is
\* present, so items.append changes the stored list before set replaces it
\* by the slice; the method returns `items`, the list before slicing.
append_to_list_items(d, key, value) ==
    Append(get(d, key, EmptyList).items, value)

append_to_list(d, key, value, max_items) ==
    set(d, key, PyList(PyLastSlice(append_to_list_items(d, key, value), max_items)))

\* Mutant of load: a file that cannot be opened or parsed leaves self.data
\* as it is.
load_keeping_on_error(f, d) ==
    IF f.kind \in {"absent", "unreadable", "garbage"} THEN d
    ELSE IF HasLen(Parse(f.doc)) THEN Parse(f.doc)
    ELSE EmptyDict

\* Mutant of load: with no file self.data is reset to {}.
load_resetting_when_absent(f, d) ==
    IF f.kind \in {"absent", "unreadable", "garbage"} THEN EmptyDict
    ELSE IF HasLen(Parse(f.doc)) THEN Parse(f.doc)
    ELSE EmptyDict

\* load(): the file's document replaces self.data; a file that cannot be
\* opened or parsed, or a document whose value has no len() (the log line
\* after the assignment raises), resets self.data to {}; with no file
\* self.data is left as it is.
load(f, d) ==
    IF f.kind = "absent" THEN d
    ELSE IF f.kind \in {"unreadable", "garbage"} THEN EmptyDict
    ELSE IF HasLen(Parse(f.doc)) THEN Parse(f.doc)
    ELSE EmptyDict

\* __init__: self.data = {} and then load().
StateManager(f) == load(f, EmptyDict)

\* save(): mkdir of the parent, open(path, 'w'), json.dump.  The outcomes
\* of the environment:
SaveOutcomes == {"ok", "mkdir_fails", "open_fails", "write_fails"}

\* Mutant of save_propagates: no except clause, an I/O error reaches the
\* caller.
save_propagates_errors(outcome) == outcome # "ok"

\* `except Exception` around the whole body: whatever mkdir, open or
\* json.dump raises is logged, and nothing reaches the caller of save().
save_propagates(outcome) == FALSE

\* open(path, 'w') truncates the file: until the document is written and
\* the file closed, a reader finds an incomplete document.
save_open(f, outcome) ==
    IF outcome \in {"mkdir_fails", "open_fails"} THEN f ELSE FileGarbage

save_write(d, outcome) ==
    IF outcome = "write_fails" THEN FileGarbage ELSE FileJson(Ser(d))

save(f, d, outcome) ==
    IF outcome \in {"mkdir_fails", "open_fails"} THEN save_open(f, outcome)
    ELSE save_write(d, outcome)

\* Mutant of exit_flush: the interrupted writer's bytes land after the
\* document that is in the file, as with a file opened for appending.
exit_flush_appending(f, d) == FileGarbage

\* sys.exit(0) inside shutdown_handler raises SystemExit at the point where
\* the handler was interrupted.  When that point is inside the `with` of a
\* save() in progress, the `with` closes that save's file object, which
\* writes what it has buffered, a prefix of the document of d, at its own
\* offset in the file: over equal bytes when the file holds the document
\* of d, leaving a mixture when it holds another document, and leaving an
\* incomplete file incomplete.
exit_flush(f, d) ==
    IF f.kind = "json" /\ f.doc # Ser(d) THEN FileGarbage ELSE f

\* ------------------------------------------------------------------------
\* Requests and the values the handlers build
\* ------------------------------------------------------------------------
Variants == {"stateful", "slack"}
Msgs == {"hi", "my name is bob"}
Users == {"U1"}
Reply == "sure"
Apology == "Sorry, I encountered an error. Please try again."
Now == "2026-01-01T00:00:00"

HistoryKey(user) == "slack_history_" \o user
UserKey(user) == "slack_user_" \o user

\* The name the patterns of get_slack_response find in a message, "" when
\* the trigger phrases are absent or no pattern matches.
ExtractName(m) == IF m = "my name is bob" THEN "Bob" ELSE ""

\* The entry a generic POST appends; the slack variant adds a timestamp.
MessageEntry(v, text, count) ==
    IF v = "slack"
    THEN PyDict([k \in {"text", "count", "timestamp"} |->
                   CASE k = "text" -> PyStr(text)
                     [] k = "count" -> PyInt(count)
                     [] OTHER -> PyStr(Now)])
    ELSE PyDict([k \in {"text", "count"} |->
                   IF k = "text" THEN PyStr(text) ELSE PyInt(count)])

HistoryEntry(message, reply) ==
    PyDict([k \in {"user", "assistant", "timestamp"} |->
              CASE k = "user" -> PyStr(message)
                [] k = "assistant" -> PyStr(reply)
                [] OTHER -> PyStr(Now)])

\* ------------------------------------------------------------------------
\* State
\* ------------------------------------------------------------------------
VARIABLES
    variant,   \* which program runs: "stateful" or "slack"
    claude,    \* CLAUDE_AVAILABLE: the text-generation client is configured
    data,      \* state.data, the in-memory mapping
    file,      \* the backing file at STATE_PATH
    run,       \* "up", "exited" (sys.exit(0)) or "killed"
    pc,        \* position of the request handler in progress, or "idle"
    req,       \* the request being handled
    loc,       \* the handler's local variables
    resp,      \* the last response sent
    pre,       \* history: state.data and the file when the last call began
    sig,       \* history: how the save of the last shutdown_handler run ended
    nreq,      \* requests received
    nrestart,  \* restarts
    op,        \* history: the last step taken
    arg,       \* history: the arguments of the last StateManager call
    ret,       \* history: what the last StateManager call returned
    ncalls,    \* direct StateManager calls made
    appended,  \* history: the append_to_list("l", v, cap) calls made since "l"
               \*          was absent, while nothing else wrote "l"
    counted,   \* history: the increment("n") calls made since "n" was
               \*          absent, while nothing else wrote "n"
    visits,    \* history: whether the first process started on an empty
               \*          store, and the GETs off /health answered since
    sigpc      \* history: where the request handler was when the last
               \*          shutdown_handler ran

vars == <<variant, claude, data, file, run, pc, req, loc, resp, pre, sig,
          nreq, nrestart, op, arg, ret, ncalls, appended, counted,
          visits, sigpc>>

serverVars == <<variant, claude, run, pc, req, loc, resp, sig, nreq, nrestart>>
apiVars == <<arg, ret, ncalls, appended, counted>>
histVars == <<visits, sigpc>>

NoReq == [method |-> "", path |-> "", body |-> "", msg |-> "", user |-> ""]
NoLoc == [list |-> <<>>, aliased |-> FALSE, count |-> 0, text |-> "", after |-> ""]
NoResp == [status |-> 0, kind |-> "", n |-> 0, text |-> ""]
NoSig == ""
NoVisits(d) == [fresh |-> d = EmptyDict, n |-> 0]
NoArg == [key |-> "", value |-> PyNone, n |-> 0]
NoRet == [kind |-> "none", value |-> PyNone]
Returned(v) == [kind |-> "value", value |-> v]
Raised == [kind |-> "raise", value |-> PyNone]
Snapshot == [data |-> data, file |-> file]

\* The histories start when the key is absent from a mapping.
Absent(d, key) == IsDict(d) /\ key \notin DOMAIN d.fields
NoAppends(d) == [ok |-> Absent(d, "l"), cap |-> 0, vals |-> <<>>]
NoCalls(d) == [ok |-> Absent(d, "n"), calls |-> 0]

\* The store after one GET and c generic POSTs of "old" and, in the slack
\* variant, h chat exchanges of user U1.
StoredMessages(v, c) ==
    LET k == IF c <= MessagesCap THEN c ELSE MessagesCap
    IN  PyList([i \in 1..k |-> MessageEntry(v, "old", c - k + i)])

StoredHistory(h) ==
    PyList([i \in 1..h |-> HistoryEntry("old", Reply)])

StoreAfter(v, c, h) ==
    LET base == set(set(set(EmptyDict, "visit_count", PyInt(1)),
                        "message_count", PyInt(c)),
                    "messages", StoredMessages(v, c))
    IN  IF v = "slack" THEN set(base, HistoryKey("U1"), StoredHistory(h)) ELSE base

\* The files a process may find at start: none, a document that is an
\* array, and the file of a store whose lists are full.
StartFiles(v) ==
    { FileAbsent, FileJson(JArr(<<>>)),
      FileJson(Ser(StoreAfter(v, MessagesCap, HistoryCap))) }

Init ==
    /\ variant \in Variants
    /\ claude \in (IF variant = "slack" THEN BOOLEAN ELSE {FALSE})
    /\ file \in StartFiles(variant)
    /\ data = StateManager(file)
    /\ run = "up"
    /\ pc = "idle"
    /\ req = NoReq
    /\ loc = NoLoc
    /\ resp = NoResp
    /\ pre = [data |-> data, file |-> file]
    /\ sig = NoSig
    /\ nreq = 0
    /\ nrestart = 0
    /\ op = "start"
    /\ arg = NoArg
    /\ ret = NoRet
    /\ ncalls = 0
    /\ appended = NoAppends(data)
    /\ counted = NoCalls(data)
    /\ visits = NoVisits(data)
    /\ sigpc = NoSig

\* ------------------------------------------------------------------------
\* The server: HTTPServer.serve_forever handles one request at a time in
\* the main thread; the signal handler runs in the same thread between any
\* two steps of a request handler.
\* ------------------------------------------------------------------------
Idle == run = "up" /\ pc = "idle" /\ nreq < MaxReq
At(p) == run = "up" /\ pc = p

\* The request body as do_POST sees it: not JSON, an object without a
\* 'message' field (an empty body is read as {}), or an object with one.
Bodies == {"malformed", "no_message", "message"}

\* len(state.data)
PyLen(v) == IF v.t = "dict" THEN Cardinality(DOMAIN v.fields) ELSE Len(v.items)

\* A handler that raises sends nothing; socketserver logs the error and
\* serves the next request.
RaisedResp == [status |-> 0, kind |-> "raised", n |-> 0, text |-> ""]

Receive(r) ==
    /\ req' = r
    /\ pre' = Snapshot
    /\ sig' = NoSig
    /\ sigpc' = NoSig
    /\ nreq' = nreq + 1

\* Mutant of do_GET_health: the health check counts as a visit.
do_GET_health_counting ==
    /\ Idle
    /\ Receive([NoReq EXCEPT !.method = "GET", !.path = "/health"])
    /\ resp' = [status |-> 200, kind |-> "health", n |-> PyLen(data), text |-> ""]
    /\ data' = IF IsDict(data) THEN increment(data, "visit_count", 1) ELSE data
    /\ op' = "do_GET_health"
    /\ UNCHANGED <<variant, claude, file, run, pc, loc, nrestart>>
    /\ UNCHANGED apiVars
    /\ UNCHANGED visits

\* do_GET, path /health
do_GET_health ==
    /\ Idle
    /\ Receive([NoReq EXCEPT !.method = "GET", !.path = "/health"])
    /\ resp' = [status |-> 200, kind |-> "health", n |-> PyLen(data), text |-> ""]
    /\ op' = "do_GET_health"
    /\ UNCHANGED <<variant, claude, data, file, run, pc, loc, nrestart>>
    /\ UNCHANGED apiVars
    /\ UNCHANGED visits

\* do_GET, any other path: count = state.increment('visit_count')
do_GET_visit ==
    /\ Idle
    /\ Receive([NoReq EXCEPT !.method = "GET", !.path = "/"])
    /\ IF IsDict(data)
       THEN /\ data' = increment(data, "visit_count", 1)
            /\ loc' = [NoLoc EXCEPT !.count = data'.fields["visit_count"].n]
            /\ pc' = "get_reply"
            /\ resp' = NoResp
       ELSE /\ resp' = RaisedResp
            /\ UNCHANGED <<data, loc, pc>>
    /\ op' = "do_GET_visit"
    /\ UNCHANGED <<variant, claude, file, run, nrestart>>
    /\ UNCHANGED apiVars
    /\ UNCHANGED visits

\* do_GET: send_json with the count
do_GET_reply ==
    /\ At("get_reply")
    /\ resp' = [status |-> 200, kind |-> "visit", n |-> loc.count, text |-> ""]
    /\ pc' = "idle"
    /\ loc' = NoLoc
    /\ op' = "do_GET_reply"
    /\ UNCHANGED <<variant, claude, data, file, run, req, pre, sig, nreq, nrestart>>
    /\ UNCHANGED apiVars
    /\ visits' = [visits EXCEPT !.n = @ + 1]
    /\ UNCHANGED sigpc

\* do_POST: json.loads(body) raises on a body that is not JSON
do_POST_malformed ==
    /\ Idle
    /\ Receive([NoReq EXCEPT !.method = "POST", !.path = "/", !.body = "malformed"])
    /\ resp' = RaisedResp
    /\ op' = "do_POST_malformed"
    /\ UNCHANGED <<variant, claude, data, file, run, pc, loc, nrestart>>
    /\ UNCHANGED apiVars
    /\ UNCHANGED visits

\* The generic POST is every POST of the stateful variant and every POST
\* off /slack of the slack variant.
GenericPath(path) == ~(variant = "slack" /\ path = "/slack")

\* do_POST, generic: messages = state.get('messages', [])
do_POST ==
    /\ Idle
    /\ \E path \in {"/", "/slack"}, body \in {"no_message", "message"} :
         /\ GenericPath(path)
         /\ path = "/slack" => body = "message"
         /\ Receive([NoReq EXCEPT !.method = "POST", !.path = path,
                                  !.body = body,
                                  !.msg = IF body = "message" THEN "hi" ELSE ""])
         /\ IF IsDict(data)
            THEN /\ loc' = [NoLoc EXCEPT
                              !.list = get(data, "messages", EmptyList).items,
                              !.aliased = "messages" \in DOMAIN data.fields]
                 /\ pc' = IF body = "message" THEN "post_inc" ELSE "post_reply"
                 /\ resp' = NoResp
            ELSE /\ resp' = RaisedResp
                 /\ UNCHANGED <<loc, pc>>
    /\ op' = "do_POST"
    /\ UNCHANGED <<variant, claude, data, file, run, nrestart>>
    /\ UNCHANGED apiVars
    /\ UNCHANGED visits

\* 'count': state.increment('message_count'), evaluated while the entry is
\* built, before messages.append
do_POST_increment ==
    /\ At("post_inc")
    /\ data' = increment(data, "message_count", 1)
    /\ loc' = [loc EXCEPT !.count = data'.fields["message_count"].n]
    /\ pc' = "post_append"
    /\ op' = "do_POST_increment"
    /\ UNCHANGED <<variant, claude, file, run, req, resp, pre, sig, nreq, nrestart>>
    /\ UNCHANGED apiVars
    /\ UNCHANGED histVars

\* messages.append(entry): `messages` is the stored list when the key was
\* present, so the stored list grows in place
do_POST_append ==
    /\ At("post_append")
    /\ loc' = [loc EXCEPT !.list = Append(loc.list, MessageEntry(variant, req.msg, loc.count))]
    /\ data' = IF loc.aliased THEN set(data, "messages", PyList(loc'.list)) ELSE data
    /\ pc' = "post_set"
    /\ op' = "do_POST_append"
    /\ UNCHANGED <<variant, claude, file, run, req, resp, pre, sig, nreq, nrestart>>
    /\ UNCHANGED apiVars
    /\ UNCHANGED histVars

\* Mutant of do_POST_set: the slack variant does not save after the set.
do_POST_set_without_save ==
    /\ At("post_set")
    /\ data' = set(data, "messages", PyList(PyLastSlice(loc.list, MessagesCap)))
    /\ pc' = "post_reply"
    /\ loc' = loc
    /\ op' = "do_POST_set"
    /\ UNCHANGED <<variant, claude, file, run, req, resp, pre, sig, nreq, nrestart>>
    /\ UNCHANGED apiVars
    /\ UNCHANGED histVars

\* state.set('messages', messages[-100:]); the slack variant then saves
do_POST_set ==
    /\ At("post_set")
    /\ data' = set(data, "messages", PyList(PyLastSlice(loc.list, MessagesCap)))
    /\ IF variant = "slack"
       THEN pc' = "save_open" /\ loc' = [loc EXCEPT !.after = "post_reply"]
       ELSE pc' = "post_reply" /\ loc' = loc
    /\ op' = "do_POST_set"
    /\ UNCHANGED <<variant, claude, file, run, req, resp, pre, sig, nreq, nrestart>>
    /\ UNCHANGED apiVars
    /\ UNCHANGED histVars

\* state.save() called by a handler, first half: mkdir and open(path, 'w')
save_begin ==
    /\ At("save_open")
    /\ \E o \in {"ok", "mkdir_fails", "open_fails"} :
         /\ file' = save_open(file, o)
         /\ pc' = IF o = "ok" THEN "save_write"
                  ELSE IF save_propagates(o) THEN "idle"
                  ELSE loc.after
         /\ resp' = IF save_propagates(o) THEN RaisedResp ELSE resp
         /\ op' = IF o = "ok" THEN "save_begin" ELSE "save_begin_failed"
    /\ UNCHANGED <<variant, claude, data, run, req, loc, pre, sig, nreq, nrestart>>
    /\ UNCHANGED apiVars
    /\ UNCHANGED histVars

\* state.save() called by a handler, second half: json.dump and close
save_end ==
    /\ At("save_write")
    /\ \E o \in {"ok", "write_fails"} :
         /\ file' = save_write(data, o)
         /\ pc' = IF save_propagates(o) THEN "idle" ELSE loc.after
         /\ resp' = IF save_propagates(o) THEN RaisedResp ELSE resp
         /\ op' = IF o = "ok" THEN "save_end" ELSE "save_end_failed"
    /\ UNCHANGED <<variant, claude, data, run, req, loc, pre, sig, nreq, nrestart>>
    /\ UNCHANGED apiVars
    /\ UNCHANGED histVars

\* do_POST, generic: send_json with total_messages
do_POST_reply ==
    /\ At("post_reply")
    /\ resp' = [status |-> 200, kind |-> "post",
                n |-> get(data, "message_count", PyInt(0)).n, text |-> ""]
    /\ pc' = "idle"
    /\ loc' = NoLoc
    /\ op' = "do_POST_reply"
    /\ UNCHANGED <<variant, claude, data, file, run, req, pre, sig, nreq, nrestart>>
    /\ UNCHANGED apiVars
    /\ UNCHANGED histVars

\* Mutant of do_POST_slack_400: the store is saved before the 400 is sent.
do_POST_slack_400_saving ==
    /\ Idle
    /\ variant = "slack"
    /\ \E body \in {"no_message", "message"}, u \in Users :
         Receive([NoReq EXCEPT !.method = "POST", !.path = "/slack",
                               !.body = body, !.user = u])
    /\ resp' = [status |-> 400, kind |-> "slack", n |-> 0, text |-> "No message provided"]
    /\ file' = save(file, data, "ok")
    /\ op' = "do_POST_slack_400"
    /\ UNCHANGED <<variant, claude, data, run, pc, loc, nrestart>>
    /\ UNCHANGED apiVars
    /\ UNCHANGED visits

\* do_POST, path /slack of the slack variant, with message '' or missing:
\* status 400
do_POST_slack_400 ==
    /\ Idle
    /\ variant = "slack"
    /\ \E body \in {"no_message", "message"}, u \in Users :
         Receive([NoReq EXCEPT !.method = "POST", !.path = "/slack",
                               !.body = body, !.user = u])
    /\ resp' = [status |-> 400, kind |-> "slack", n |-> 0, text |-> "No message provided"]
    /\ op' = "do_POST_slack_400"
    /\ UNCHANGED <<variant, claude, data, file, run, pc, loc, nrestart>>
    /\ UNCHANGED apiVars
    /\ UNCHANGED visits

\* do_POST, path /slack with a message: get_slack_response up to the call
\* of the text-generation service.  Without a client it returns at once;
\* with one it reads the user's history and profile from the store.
do_POST_slack ==
    /\ Idle
    /\ variant = "slack"
    /\ \E m \in Msgs, u \in Users :
         /\ Receive([NoReq EXCEPT !.method = "POST", !.path = "/slack",
                                  !.body = "message", !.msg = m, !.user = u])
         /\ IF ~claude
            THEN /\ resp' = [status |-> 200, kind |-> "slack", n |-> 0,
                             text |-> "AI not configured. Your message: " \o m]
                 /\ UNCHANGED <<loc, pc>>
            ELSE IF IsDict(data)
            THEN /\ loc' = [NoLoc EXCEPT
                              !.list = get(data, HistoryKey(u), EmptyList).items,
                              !.aliased = HistoryKey(u) \in DOMAIN data.fields]
                 /\ pc' = "slack_call"
                 /\ resp' = NoResp
            ELSE /\ resp' = RaisedResp
                 /\ UNCHANGED <<loc, pc>>
    /\ op' = "do_POST_slack"
    /\ UNCHANGED <<variant, claude, data, file, run, nrestart>>
    /\ UNCHANGED apiVars
    /\ UNCHANGED visits

\* Mutant of get_slack_response_call: no except clause, the exception of
\* the text-generation call leaves do_POST and nothing is sent.
get_slack_response_call_raising ==
    /\ At("slack_call")
    /\ \E ai \in {"ok", "fails"} :
         IF ai = "ok"
         THEN loc' = [loc EXCEPT !.text = Reply] /\ pc' = "slack_append" /\ resp' = resp
         ELSE loc' = NoLoc /\ pc' = "idle" /\ resp' = RaisedResp
    /\ op' = "get_slack_response_call"
    /\ UNCHANGED <<variant, claude, data, file, run, req, pre, sig, nreq, nrestart>>
    /\ UNCHANGED apiVars
    /\ UNCHANGED histVars

\* Mutant of get_slack_response_call: the failed exchange is recorded in
\* the history with the apology as the reply.
get_slack_response_call_recording_failure ==
    /\ At("slack_call")
    /\ \E ai \in {"ok", "fails"} :
         /\ loc' = [loc EXCEPT !.text = IF ai = "ok" THEN Reply ELSE Apology]
         /\ pc' = "slack_append"
    /\ op' = "get_slack_response_call"
    /\ UNCHANGED <<variant, claude, data, file, run, req, resp, pre, sig, nreq, nrestart>>
    /\ UNCHANGED apiVars
    /\ UNCHANGED histVars

\* claude.messages.create returns a reply or raises; the except clause
\* turns any exception into the apology
get_slack_response_call ==
    /\ At("slack_call")
    /\ \E ai \in {"ok", "fails"} :
         IF ai = "ok"
         THEN loc' = [loc EXCEPT !.text = Reply] /\ pc' = "slack_append"
         ELSE loc' = [loc EXCEPT !.text = Apology] /\ pc' = "slack_reply"
    /\ op' = "get_slack_response_call"
    /\ UNCHANGED <<variant, claude, data, file, run, req, resp, pre, sig, nreq, nrestart>>
    /\ UNCHANGED apiVars
    /\ UNCHANGED histVars

\* conversation.append(entry): the stored history grows in place when the
\* key was present
get_slack_response_append ==
    /\ At("slack_append")
    /\ loc' = [loc EXCEPT !.list = Append(loc.list, HistoryEntry(req.msg, loc.text))]
    /\ data' = IF loc.aliased
               THEN set(data, HistoryKey(req.user), PyList(loc'.list))
               ELSE data
    /\ pc' = "slack_set"
    /\ op' = "get_slack_response_append"
    /\ UNCHANGED <<variant, claude, file, run, req, resp, pre, sig, nreq, nrestart>>
    /\ UNCHANGED apiVars
    /\ UNCHANGED histVars

\* state.set(history_key, conversation[-50:])
get_slack_response_set ==
    /\ At("slack_set")
    /\ data' = set(data, HistoryKey(req.user), PyList(PyLastSlice(loc.list, HistoryCap)))
    /\ IF ExtractName(req.msg) # ""
       THEN pc' = "slack_name" /\ loc' = loc
       ELSE pc' = "save_open" /\ loc' = [loc EXCEPT !.after = "slack_reply"]
    /\ op' = "get_slack_response_set"
    /\ UNCHANGED <<variant, claude, file, run, req, resp, pre, sig, nreq, nrestart>>
    /\ UNCHANGED apiVars
    /\ UNCHANGED histVars

\* user_info['name'], user_info['name_set_at'], state.set(user_key, user_info)
get_slack_response_name ==
    /\ At("slack_name")
    /\ LET info == get(data, UserKey(req.user), EmptyDict).fields
       IN  data' = set(data, UserKey(req.user),
                       PyDict(MapPut(MapPut(info, "name", PyStr(ExtractName(req.msg))),
                                     "name_set_at", PyStr(Now))))
    /\ pc' = "save_open"
    /\ loc' = [loc EXCEPT !.after = "slack_reply"]
    /\ op' = "get_slack_response_name"
    /\ UNCHANGED <<variant, claude, file, run, req, resp, pre, sig, nreq, nrestart>>
    /\ UNCHANGED apiVars
    /\ UNCHANGED histVars

\* do_POST, path /slack: send_json with the text
do_POST_slack_reply ==
    /\ At("slack_reply")
    /\ resp' = [status |-> 200, kind |-> "slack", n |-> 0, text |-> loc.text]
    /\ pc' = "idle"
    /\ loc' = NoLoc
    /\ op' = "do_POST_slack_reply"
    /\ UNCHANGED <<variant, claude, data, file, run, req, pre, sig, nreq, nrestart>>
    /\ UNCHANGED apiVars
    /\ UNCHANGED histVars

\* A process that has stopped has no memory: its variables are gone.
Stopped ==
    /\ pc' = "stopped"
    /\ data' = EmptyDict
    /\ req' = NoReq
    /\ loc' = NoLoc
    /\ resp' = NoResp
    /\ pre' = [data |-> EmptyDict, file |-> FileAbsent]

\* Mutant of shutdown_handler: sys.exit(0) without state.save().
shutdown_handler_without_save ==
    /\ run = "up"
    /\ sig' = "ok"
    /\ run' = "exited"
    /\ Stopped
    /\ op' = "shutdown_handler"
    /\ UNCHANGED <<variant, claude, file, nreq, nrestart>>
    /\ UNCHANGED <<arg, ret, ncalls, appended, counted>>
    /\ sigpc' = pc
    /\ UNCHANGED visits

\* SIGTERM or SIGINT: shutdown_handler runs state.save() and sys.exit(0),
\* wherever the main thread is.  A save in progress in the interrupted
\* handler has truncated the file; what it still holds in its buffer is
\* written when sys.exit unwinds its `with` (exit_flush).
shutdown_handler ==
    /\ run = "up"
    /\ \E o \in SaveOutcomes :
         /\ file' = IF pc = "save_write"
                    THEN exit_flush(save(file, data, o), data)
                    ELSE save(file, data, o)
         /\ sig' = o
         /\ run' = IF save_propagates(o) THEN "killed" ELSE "exited"
    /\ Stopped
    /\ op' = "shutdown_handler"
    /\ UNCHANGED <<variant, claude, nreq, nrestart>>
    /\ UNCHANGED apiVars
    /\ sigpc' = pc
    /\ UNCHANGED visits

\* The process is killed with no termination signal delivered (SIGKILL,
\* power loss): nothing is saved.
Kill ==
    /\ run = "up"
    /\ run' = "killed"
    /\ Stopped
    /\ sig' = NoSig
    /\ op' = "kill"
    /\ UNCHANGED <<variant, claude, file, nreq, nrestart>>
    /\ UNCHANGED apiVars
    /\ sigpc' = NoSig
    /\ UNCHANGED visits

\* The platform wakes the agent: a new process builds StateManager(STATE_PATH).
Restart ==
    /\ run \in {"exited", "killed"}
    /\ nrestart < MaxRestart
    /\ data' = StateManager(file)
    /\ pre' = [data |-> data', file |-> file]
    /\ run' = "up"
    /\ pc' = "idle"
    /\ req' = NoReq
    /\ loc' = NoLoc
    /\ resp' = NoResp
    /\ nrestart' = nrestart + 1
    /\ op' = IF run = "exited" THEN "restart_after_exit" ELSE "restart_after_kill"
    /\ UNCHANGED <<variant, claude, file, sig, nreq>>
    /\ UNCHANGED apiVars
    /\ UNCHANGED histVars

Next ==
    \/ do_GET_health
    \/ do_GET_visit
    \/ do_GET_reply
    \/ do_POST_malformed
    \/ do_POST
    \/ do_POST_increment
    \/ do_POST_append
    \/ do_POST_set
    \/ save_begin
    \/ save_end
    \/ do_POST_reply
    \/ do_POST_slack_400
    \/ do_POST_slack
    \/ get_slack_response_call
    \/ get_slack_response_append
    \/ get_slack_response_set
    \/ get_slack_response_name
    \/ do_POST_slack_reply
    \/ shutdown_handler
    \/ Kill
    \/ Restart

Spec == Init /\ [][Next]_vars

\* ------------------------------------------------------------------------
\* The StateManager on its own: a caller makes any sequence of calls of its
\* methods on one instance, and may build a fresh instance on the same path.
\* ------------------------------------------------------------------------
ApiValues ==
    { PyInt(5), PyStr("a"), PyBool(1), PyNone, PyObj("2026-01-01"),
      PyTuple(<<PyInt(1)>>), PyList(<<PyStr("a"), PyNone>>) }

ApiStartFiles ==
    { FileAbsent, FileUnreadable, FileGarbage,
      FileJson(JObj([k \in {"n"} |-> JNum(2)])),
      FileJson(JArr(<<JNum(1)>>)), FileJson(JStr("s")),
      FileJson(JNum(7)), FileJson(JLit("null")) }

ApiInit ==
    /\ variant = "slack"
    /\ claude = FALSE
    /\ file \in ApiStartFiles
    /\ data = StateManager(file)
    /\ run = "up"
    /\ pc = "idle"
    /\ req = NoReq
    /\ loc = NoLoc
    /\ resp = NoResp
    /\ pre = [data |-> data, file |-> file]
    /\ sig = NoSig
    /\ nreq = 0
    /\ nrestart = 0
    /\ op = "start"
    /\ arg = NoArg
    /\ ret = NoRet
    /\ ncalls = 0
    /\ appended = NoAppends(data)
    /\ counted = NoCalls(data)
    /\ visits = NoVisits(data)
    /\ sigpc = NoSig

Call(name, a, r) ==
    /\ ncalls < MaxCalls
    /\ op' = name
    /\ arg' = a
    /\ ret' = r
    /\ pre' = Snapshot
    /\ ncalls' = ncalls + 1
    /\ UNCHANGED serverVars
    /\ UNCHANGED histVars

\* state.get(key): self.data.get(key, None)
api_get ==
    \E key \in {"x", "n", "l"} :
      /\ Call("get", [NoArg EXCEPT !.key = key],
              IF IsDict(data) THEN Returned(get(data, key, PyNone)) ELSE Raised)
      /\ UNCHANGED <<data, file, appended, counted>>

\* Mutant of api_set: set() also saves.
api_set_saving ==
    \E key \in {"x", "n"}, value \in ApiValues :
      /\ ncalls < MaxCalls
      /\ op' = "set"
      /\ arg' = [NoArg EXCEPT !.key = key, !.value = value]
      /\ ret' = Returned(PyNone)
      /\ pre' = Snapshot
      /\ ncalls' = ncalls + 1
      /\ data' = IF IsDict(data) THEN set(data, key, value) ELSE data
      /\ file' = FileJson(Ser(data'))
      /\ counted' = IF key = "n" /\ IsDict(data)
                    THEN [counted EXCEPT !.ok = FALSE]
                    ELSE counted
      /\ UNCHANGED <<variant, claude, run, pc, req, loc, resp, sig, nreq, nrestart>>
      /\ UNCHANGED <<appended, visits, sigpc>>

\* state.set(key, value): self.data[key] = value
api_set ==
    \E key \in {"x", "n"}, value \in ApiValues :
      /\ Call("set", [NoArg EXCEPT !.key = key, !.value = value],
              IF IsDict(data) THEN Returned(PyNone) ELSE Raised)
      /\ data' = IF IsDict(data) THEN set(data, key, value) ELSE data
      /\ counted' = IF key = "n" /\ IsDict(data)
                    THEN [counted EXCEPT !.ok = FALSE]
                    ELSE counted
      /\ UNCHANGED <<file, appended>>

\* state.increment(key, by); it raises when self.data is no dict or the
\* stored value is no number
api_increment ==
    \E by \in {1, 2, -1} :
      LET can == IsDict(data) /\ CanAdd(get(data, "n", PyInt(0)))
      IN  /\ data' = IF can THEN increment(data, "n", by) ELSE data
          /\ Call("increment", [NoArg EXCEPT !.key = "n", !.n = by],
                  IF can THEN Returned(data'.fields["n"]) ELSE Raised)
          /\ counted' = IF can /\ by = 1 /\ counted.ok
                        THEN [counted EXCEPT !.calls = @ + 1]
                        ELSE IF can THEN [counted EXCEPT !.ok = FALSE]
                        ELSE counted
          /\ UNCHANGED <<file, appended>>

\* state.append_to_list(key, value, max_items)
api_append_to_list ==
    \E value \in {PyInt(1), PyInt(2)}, max_items \in 0..MaxCap :
      /\ Call("append_to_list", [key |-> "l", value |-> value, n |-> max_items],
              IF IsDict(data)
              THEN Returned(PyList(append_to_list_items(data, "l", value)))
              ELSE Raised)
      /\ data' = IF IsDict(data) THEN append_to_list(data, "l", value, max_items) ELSE data
      /\ appended' =
            IF ~IsDict(data) THEN appended
            ELSE IF appended.ok /\ (appended.vals = <<>> \/ appended.cap = max_items)
            THEN [ok |-> TRUE, cap |-> max_items, vals |-> Append(appended.vals, value)]
            ELSE [appended EXCEPT !.ok = FALSE]
      /\ UNCHANGED <<file, counted>>

\* state.save()
api_save ==
    \E o \in SaveOutcomes :
      /\ Call("save", [NoArg EXCEPT !.key = o],
              IF save_propagates(o) THEN Raised ELSE Returned(PyNone))
      /\ file' = save(file, data, o)
      /\ UNCHANGED <<data, appended, counted>>

\* state.load() on the live instance
api_load ==
    /\ Call("load", NoArg, Returned(PyNone))
    /\ data' = load(file, data)
    /\ appended' = IF data' = data THEN appended ELSE NoAppends(data')
    /\ counted' = IF data' = data THEN counted ELSE NoCalls(data')
    /\ UNCHANGED file

\* StateManager(path): a fresh instance on the same path
api_new ==
    /\ Call("new", NoArg, Returned(PyNone))
    /\ data' = StateManager(file)
    /\ appended' = NoAppends(data')
    /\ counted' = NoCalls(data')
    /\ UNCHANGED file

ApiNext ==
    \/ api_get
    \/ api_set
    \/ api_increment
    \/ api_append_to_list
    \/ api_save
    \/ api_load
    \/ api_new

ApiSpec == ApiInit /\ [][ApiNext]_vars

\* ------------------------------------------------------------------------
\* Properties
\* ------------------------------------------------------------------------
Count(d) == get(d, "message_count", PyInt(0)).n
Messages(d) == get(d, "messages", EmptyList).items
History(d, u) == get(d, HistoryKey(u), EmptyList).items
Min(a, b) == IF a <= b THEN a ELSE b
LastN(xs, k) == SubSeq(xs, Len(xs) - k + 1, Len(xs))
Quiet == run = "up" /\ pc = "idle"

WithinCaps(d) ==
    IsDict(d) =>
        /\ Len(Messages(d)) <= MessagesCap
        /\ \A u \in Users : Len(History(d, u)) <= HistoryCap

\* C1: starting from a store whose lists are within their caps, whenever
\* the server is between requests, after any sequence of requests,
\* termination signals and restarts, 'messages' holds at most 100 entries
\* and every 'slack_history_<userId>' list at most 50.
C1_ListsWithinCaps == Quiet => WithinCaps(data)

\* C1, the failing case: a restart has loaded a 'messages' list of 101
\* entries, saved by a shutdown_handler that ran between messages.append
\* and state.set.
C1_OverCapLoaded ==
    /\ op = "restart_after_exit"
    /\ IsDict(data)
    /\ Len(Messages(data)) = MessagesCap + 1

C3_RoundTrip ==
    [][(/\ op = "save" /\ arg.key = "ok"
        /\ op' = "new"
        /\ IsDict(data) /\ JsonRepresentable(data)) => data' = data]_vars

\* C3, the case: a fresh instance holds the list of a string and a null
\* that the instance before it held when it saved.
C3_Witness ==
    /\ op = "new"
    /\ pre.file = FileJson(Ser(pre.data))
    /\ data = pre.data
    /\ IsDict(data)
    /\ "x" \in DOMAIN data.fields
    /\ data.fields["x"] = PyList(<<PyStr("a"), PyNone>>)

\* C4: a save() that fails at mkdir, at open or at the write returns to the
\* handler that called it, which goes on to its reply with the server up;
\* the in-memory mapping is as it was before the call.
C4_SaveFailureIsContained ==
    [][op' \in {"save_begin_failed", "save_end_failed"} =>
         /\ data' = data
         /\ run' = "up"
         /\ pc' = loc.after
         /\ resp' = resp]_vars

\* C4, the case: after a save that failed at the write, the generic POST
\* has replied 200 and the server handles a second request.
C4_Witness ==
    /\ Quiet
    /\ op = "do_POST_reply"
    /\ nreq = 2
    /\ resp.status = 200
    /\ file.kind = "garbage"
    /\ pre.file.kind = "garbage"

\* C5: load() on a file that exists but cannot be read or parsed returns
\* without raising and leaves the in-memory mapping empty, whatever it held.
C5_LoadErrorResets ==
    (op = "load" /\ pre.file.kind \in {"unreadable", "garbage"}) =>
        (ret = Returned(PyNone) /\ data = EmptyDict)

\* C5, the case: load() emptied a mapping that was not empty.
C5_Witness ==
    /\ op = "load"
    /\ pre.file.kind = "garbage"
    /\ pre.data # EmptyDict
    /\ data = EmptyDict

\* C6 as claimed: load() with no backing file leaves the store empty,
\* whatever the in-memory mapping held before.
C6_LoadAbsentEmpties ==
    (op = "load" /\ pre.file.kind = "absent") => data = EmptyDict

\* C6 as amended: load() with no backing file returns without raising and
\* leaves the in-memory mapping as it was; a StateManager constructed on a
\* path with no file is empty.
C6_LoadAbsentKeeps ==
    /\ (op = "load" /\ pre.file.kind = "absent") =>
           (ret = Returned(PyNone) /\ data = pre.data)
    /\ (op = "new" /\ pre.file.kind = "absent") => data = EmptyDict

\* C6, the case: load() found no file and the mapping kept its entries.
C6_Witness ==
    /\ op = "load"
    /\ pre.file.kind = "absent"
    /\ data # EmptyDict

\* C7: increment(key, by) takes an absent key as 0, stores old + by,
\* returns the value it stored and leaves the other keys alone; after N
\* calls of increment("n") from a store without "n" the stored value is N
\* and the N-th call returned N.
C7_Increment ==
    /\ (op = "increment" /\ ret.kind = "value") =>
          /\ data.fields["n"] = PyInt(get(pre.data, "n", PyInt(0)).n + arg.n)
          /\ ret.value = data.fields["n"]
          /\ DOMAIN data.fields = DOMAIN pre.data.fields \cup {"n"}
          /\ \A k \in DOMAIN pre.data.fields \ {"n"} :
                data.fields[k] = pre.data.fields[k]
    /\ (counted.ok /\ counted.calls > 0) =>
          /\ data.fields["n"] = PyInt(counted.calls)
          /\ op = "increment" => ret.value = PyInt(counted.calls)

\* C7, the case: the second increment("n") in a row from a store without
\* "n", beside another key.
C7_Witness ==
    /\ op = "increment"
    /\ counted.ok
    /\ counted.calls = 2
    /\ "x" \in DOMAIN data.fields

\* C8: after n append_to_list("l", v, max_items) calls with one max_items
\* >= 0 on an absent key, the stored list is the last min(n, max_items)
\* values appended, in order.
C8_AppendKeepsLast ==
    (appended.ok /\ appended.vals # <<>>) =>
        get(data, "l", EmptyList) =
            PyList(LastN(appended.vals, Min(Len(appended.vals), appended.cap)))

\* C8, the failing case: with max_items = 0 the stored list is not empty.
C8_ZeroCapKeepsAll ==
    /\ appended.ok
    /\ appended.cap = 0
    /\ Len(appended.vals) = 2
    /\ get(data, "l", EmptyList) = PyList(appended.vals)

\* C9: get, set, increment and append_to_list leave the backing file as it
\* was; the file changes in save() only.
C9_OnlySaveWrites ==
    /\ op \in {"get", "set", "increment", "append_to_list"} => file = pre.file
    /\ file # pre.file => op = "save"

\* C9, the case: set() changed the mapping beside a file that holds a
\* document, and the file is as before.
C9_Witness ==
    /\ op = "set"
    /\ data # pre.data
    /\ file.kind = "json"
    /\ file = pre.file
    /\ StateManager(file) # data

\* C10: a generic POST with a 'message' field raises message_count by one,
\* leaves as last entry of 'messages' one with that text and the new count,
\* and reports the new count as total_messages; one without the field
\* changes neither message_count nor 'messages'.
C10_GenericPost ==
    op = "do_POST_reply" =>
        IF req.body = "message"
        THEN /\ Count(data) = Count(pre.data) + 1
             /\ Messages(data) # <<>>
             /\ LET e == Messages(data)[Len(Messages(data))]
                IN  /\ e.fields["text"] = PyStr(req.msg)
                    /\ e.fields["count"] = PyInt(Count(data))
             /\ resp.status = 200
             /\ resp.n = Count(data)
        ELSE /\ get(data, "message_count", PyNone) = get(pre.data, "message_count", PyNone)
             /\ get(data, "messages", PyNone) = get(pre.data, "messages", PyNone)

\* C10, the case: a POST of "hi" to a store of 100 messages has evicted
\* the oldest and replied with total 101.
C10_Witness ==
    /\ op = "do_POST_reply"
    /\ req.body = "message"
    /\ Len(Messages(pre.data)) = MessagesCap
    /\ Len(Messages(data)) = MessagesCap
    /\ resp.n = MessagesCap + 1

\* C11: a POST /slack whose 'message' is empty or missing is answered with
\* status 400; the in-memory mapping (histories, profiles, counters, message
\* log) and the backing file are as they were when the request arrived.
C11_Slack400ChangesNothing ==
    op = "do_POST_slack_400" =>
        /\ resp.status = 400
        /\ data = pre.data
        /\ file = pre.file
        /\ Quiet

\* C11, the case: the 400 was sent by a server whose store holds a history
\* and a visit count that the file does not have yet.
C11_Witness ==
    /\ op = "do_POST_slack_400"
    /\ resp.status = 400
    /\ nreq = 2
    /\ IsDict(data)
    /\ HistoryKey("U1") \in DOMAIN data.fields
    /\ get(data, "visit_count", PyInt(0)) = PyInt(2)
    /\ file # FileJson(Ser(data))

\* C12: when the text-generation call of a POST /slack fails, nothing
\* leaves the handler: its next step is the reply, which sends status 200
\* with the apology as text and leaves the server up and between requests.
C12_CallFailureIsContained ==
    [][/\ (op' = "get_slack_response_call" /\ loc'.text # Reply) =>
             /\ loc'.text = Apology
             /\ run' = "up"
             /\ pc' = "slack_reply"
             /\ resp' = resp
       /\ (pc = "slack_reply" /\ op' = "do_POST_slack_reply") =>
             /\ resp' = [status |-> 200, kind |-> "slack", n |-> 0, text |-> loc.text]
             /\ run' = "up"
             /\ pc' = "idle"]_vars

\* C12, the case: the request whose text-generation call failed was
\* answered 200 with the apology, and the server is ready for the next.
C12_Witness ==
    /\ op = "do_POST_slack_reply"
    /\ resp.status = 200
    /\ resp.text = Apology
    /\ Quiet
    /\ nreq < MaxReq

\* C13: in the slack variant, when a POST /slack exchange whose
\* text-generation call returned, or a generic POST with a 'message',
\* sends its reply and its save did not fail, the file holds the document
\* of the whole in-memory mapping, whose history (message log) ends with
\* the entry of this request.
C13_SavedOnCompletion ==
    [][(/\ variant = "slack"
        /\ op \notin {"save_begin_failed", "save_end_failed"}
        /\ \/ op' = "do_POST_reply" /\ req.body = "message"
           \/ op' = "do_POST_slack_reply" /\ loc.text = Reply) =>
          /\ file' = FileJson(Ser(data'))
          /\ StateManager(file') = data'
          /\ op' = "do_POST_reply" =>
                /\ Messages(data') # <<>>
                /\ Messages(data')[Len(Messages(data'))] =
                      MessageEntry(variant, req.msg, Count(data'))
          /\ op' = "do_POST_slack_reply" =>
                /\ History(data', req.user) # <<>>
                /\ History(data', req.user)[Len(History(data', req.user))] =
                      HistoryEntry(req.msg, Reply)]_vars

\* C13, the case: a chat exchange was answered after a GET that no save
\* had followed, and the file holds the new history entry and the visit
\* count of that GET.
C13_Witness ==
    /\ variant = "slack"
    /\ op = "do_POST_slack_reply"
    /\ resp.text = Reply
    /\ nreq = 2
    /\ pre.file # FileJson(Ser(pre.data))
    /\ file = FileJson(Ser(data))
    /\ get(data, "visit_count", PyInt(0)) = PyInt(2)
    /\ History(data, "U1")[Len(History(data, "U1"))] = HistoryEntry(req.msg, Reply)

Visits(d) == get(d, "visit_count", PyInt(0)).n

\* A GET off /health answered: visit_count is one more than when the
\* request arrived and the reply reports it.  A GET /health answered: the
\* store is as it was.
GetCountsOne ==
    /\ op = "do_GET_reply" =>
          /\ Visits(data) = Visits(pre.data) + 1
          /\ resp.n = Visits(data)
    /\ op = "do_GET_health" => (data = pre.data /\ file = pre.file)

\* C14 as claimed: every GET off /health raises visit_count by one and
\* reports it, GET /health changes nothing, and so, from an empty store on,
\* visit_count is always the number of GETs off /health answered and the
\* k-th of them reports k.
C14_VisitCountIsGets ==
    /\ GetCountsOne
    /\ (visits.fresh /\ Quiet) => Visits(data) = visits.n
    /\ (visits.fresh /\ op = "do_GET_reply") => resp.n = visits.n

\* C14 as amended: the same, the count being that of the GETs answered by
\* one process that started on an empty store and has not been restarted.
C14_VisitCountWithinRun ==
    /\ GetCountsOne
    /\ (visits.fresh /\ nrestart = 0 /\ Quiet) => Visits(data) = visits.n
    /\ (visits.fresh /\ nrestart = 0 /\ op = "do_GET_reply") => resp.n = visits.n

\* C14, the case: the second GET of a process started on an empty store
\* reported 2.
C14_Witness ==
    /\ visits.fresh
    /\ nrestart = 0
    /\ op = "do_GET_reply"
    /\ visits.n = 2
    /\ resp.n = 2
    /\ Visits(data) = 2

C16_ReturnsStoredList ==
    (op = "append_to_list" /\ ret.kind = "value") =>
        /\ ret.value = get(data, "l", EmptyList)
        /\ Len(ret.value.items) <= arg.n

\* C16, the failing case: the second append with max_items = 1 stored the
\* one-element list of the new value and returned a list of two.
C16_ReturnedLongerThanStored ==
    /\ op = "append_to_list"
    /\ arg.n = 1
    /\ arg.value = PyInt(2)
    /\ get(data, "l", EmptyList) = PyList(<<PyInt(2)>>)
    /\ ret = Returned(PyList(<<PyInt(1), PyInt(2)>>))

\* C17: after load() returns, by itself or within the construction of a
\* StateManager, whatever the file holds, the in-memory state is a mapping
\* with string keys, and a get or set that follows does not raise.
C17_LoadLeavesMapping ==
    /\ op \in {"load", "new"} => IsDict(data)
    /\ op \in {"get", "set"} => ret.kind = "value"

\* C17, the failing case: the file holds a JSON array, the in-memory state
\* after load() is a list, and get raised.
C17_ArrayLoaded ==
    /\ op = "get"
    /\ ret = Raised
    /\ file = FileJson(JArr(<<JNum(1)>>))
    /\ data = PyList(<<PyInt(1)>>)
    /\ load(file, EmptyDict) = data

\* The message log of mapping d agrees with its counter: 'messages' has
\* min(message_count, 100) entries whose counts are consecutive and end at
\* message_count, and is absent or empty exactly when message_count is
\* absent or 0.
LogConsistent(d) ==
    /\ Len(Messages(d)) = Min(Count(d), MessagesCap)
    /\ \A i \in 1..Len(Messages(d)) :
          Messages(d)[i].fields["count"] = PyInt(Count(d) - Len(Messages(d)) + i)

\* C18: from an empty store on, the in-memory mapping between requests and
\* every document written to the file, by a handler's save or by the
\* signal handler wherever the signal arrived, has a message log that
\* agrees with its counter.
C18_LogConsistent ==
    visits.fresh =>
        /\ Quiet => LogConsistent(data)
        /\ file.kind = "json" => LogConsistent(Parse(file.doc))

\* C18, the failing case: the signal arrived after
\* state.increment('message_count') and before state.set('messages', ...):
\* the file written at exit has message_count 1 and no 'messages'.
C18_CountWithoutEntry ==
    /\ visits.fresh
    /\ op = "shutdown_handler"
    /\ sigpc = "post_append"
    /\ sig = "ok"
    /\ file.kind = "json"
    /\ Count(Parse(file.doc)) = 1
    /\ Messages(Parse(file.doc)) = <<>>

\* C19: a save() that fails, at whatever step, leaves the file as it was,
\* so that a fresh StateManager loads what the last successful save wrote.
C19_FailedSaveKeepsFile ==
    (op = "save" /\ arg.key # "ok") =>
        /\ file = pre.file
        /\ StateManager(file) = StateManager(pre.file)

\* C19, the failing case: the file held a document, the write of a save
\* failed after open(path, 'w') had truncated it, and a fresh StateManager
\* now loads an empty mapping.
C19_TruncatedByFailedWrite ==
    /\ op = "save"
    /\ arg.key = "write_fails"
    /\ pre.file = FileJson(JObj([k \in {"n"} |-> JNum(2)]))
    /\ file.kind = "garbage"
    /\ StateManager(pre.file) # EmptyDict
    /\ StateManager(file) = EmptyDict

\* C20: a POST /slack that is answered without a reply of the
\* text-generation call, because the call failed or no client is
\* configured, leaves the in-memory mapping and the file as they were when
\* it arrived; one that is answered with a reply has appended to the user's
\* history exactly one entry, holding its message and that reply (the
\* history keeping its last 50); and every other request that is answered
\* leaves the history as it was.
C20_ChatUpdateAllOrNothing ==
    /\ (op = "do_POST_slack_reply" /\ resp.text # Reply) =>
          (data = pre.data /\ file = pre.file)
    /\ (op = "do_POST_slack" /\ pc = "idle") =>
          (data = pre.data /\ file = pre.file)
    /\ (op = "do_POST_slack_reply" /\ resp.text = Reply) =>
          History(data, req.user) =
              PyLastSlice(Append(History(pre.data, req.user),
                                 HistoryEntry(req.msg, Reply)), HistoryCap)
    /\ op \in {"do_GET_health", "do_GET_reply", "do_POST_malformed",
               "do_POST_reply", "do_POST_slack_400"} =>
          \A u \in Users :
             get(data, HistoryKey(u), PyNone) = get(pre.data, HistoryKey(u), PyNone)

\* C20, the case: a chat request whose text-generation call failed was
\* answered on a server that holds a history and unsaved changes, and
\* mapping and file are as before it.
C20_Witness ==
    /\ op = "do_POST_slack_reply"
    /\ resp.text = Apology
    /\ nreq = 2
    /\ Len(History(data, "U1")) = HistoryCap
    /\ data = pre.data
    /\ file = pre.file
    /\ file # FileJson(Ser(data))

====
